---- MODULE Spec2Model ----
(***************************************************************************)
(* Model of shopee.py: the session bootstrap, the paginated extraction of  *)
(* extrair_categorias_via_api, the flattening of one category item, and    *)
(* main with its three sink writers.                                       *)
(*                                                                         *)
(* The remote API is the environment: every request draws its response    *)
(* (a transport exception, a status code, a body that may fail to parse,   *)
(* lack keys, or carry a list of items) from a bounded set.                *)
(***************************************************************************)
EXTENDS Integers, Sequences, FiniteSets, TLC

VARIABLES
    pc,                \* position in main / extrair_categorias_via_api
    cookies,           \* result of obter_cookie_sessao
    todas_categorias,  \* the accumulator
    data,              \* the last parsed JSON body
    total_itens,
    total_paginas,
    pagina,            \* the loop variable of the page loop
    retorno,           \* value returned by extrair_categorias_via_api
    saida,             \* which return statement was taken
    resultado_main,    \* value returned by main
    pedidos,           \* history: page numbers requested, in order
    respostas,         \* history: response of each request, in order
    dormidas,          \* history: sleeps executed since the last request
    intervalos,        \* history: for each request after the first, the
                       \*          sleeps executed since the previous one
    gravacoes          \* history: the sink calls of main, in order

vars == <<pc, cookies, todas_categorias, data, total_itens, total_paginas,
          pagina, retorno, saida, resultado_main, pedidos, respostas,
          dormidas, intervalos, gravacoes>>

----------------------------------------------------------------------------
(* Bounds of the model *)

MaxPaginas == 3     \* largest page count a first response declares
MaxItens == 1       \* longest global_cats list of a response in Spec
MaxLista == 3       \* longest global_cats list in SpecItens
MaxNiveis == 6      \* longest ancestry path in SpecItens

(* Program constant *)
tamanho_pagina == 100

----------------------------------------------------------------------------
(* Items of global_cats.  A JSON object is a record with the set of keys   *)
(* it holds; a path node is an object that may lack "category_name".       *)

No(nome) == [tem_nome |-> TRUE, category_name |-> nome]
NoSemNome == [tem_nome |-> FALSE, category_name |-> ""]

Item(chaves, path, id, images) ==
    [is_dict |-> TRUE, chaves |-> chaves, path |-> path,
     category_id |-> id, images |-> images]

\* an element of global_cats that is not an object (a string, a number)
ItemNaoDict ==
    [is_dict |-> FALSE, chaves |-> {}, path |-> <<>>,
     category_id |-> "", images |-> <<>>]

ItemBom == Item({"path", "category_id", "images"},
                <<No("a"), No("b")>>, "id1", <<"img1", "img2">>)
ItemSemId == Item({"path"}, <<No("c")>>, "", <<>>)
ItemRuim == Item({"path", "category_id"}, <<No("a"), NoSemNome>>, "id2", <<>>)

Itens == {ItemBom, ItemSemId, ItemRuim}

SeqAte(S, n) == UNION {[1..k -> S] : k \in 0..n}

Nos == {No("a"), No("b"), NoSemNome}

Universo ==
    {Item(ch \cup {"path"}, p, "id1", im) :
        ch \in SUBSET {"category_id"},
        p \in SeqAte(Nos, MaxNiveis),
        im \in {<<>>, <<"img1", "img2">>}}
    \cup {Item({"category_id"}, <<>>, "id1", <<>>), ItemNaoDict}

----------------------------------------------------------------------------
(* Flattening of one item, lines 142-159 *)

Colunas == <<"categoria", "subcategoria", "3_nivel_categoria",
             "4_nivel_categoria", "5_nivel_categoria",
             "id_categoria", "imagem_categoria">>

\* item.get(chave, default)
Get(item, chave, default) ==
    IF chave \in item.chaves THEN item[chave] ELSE default

\* mutant: every level reads the first node of the path
Nivel_PrimeiroNo(path, i) == IF Len(path) > i THEN path[1].category_name ELSE ""

\* path[i]["category_name"] if len(path) > i else ""   (i is 0-based)
Nivel(path, i) == IF Len(path) > i THEN path[i + 1].category_name ELSE ""

\* mutant: item["category_id"] in place of item.get("category_id", "")
Levanta_SemGet(item) ==
    \/ ~item.is_dict
    \/ "category_id" \notin item.chaves
    \/ LET path == Get(item, "path", <<>>)
       IN  \E i \in 0..4 : Len(path) > i /\ ~path[i + 1].tem_nome

\* the statements of the try block that can raise
Levanta(item) ==
    \/ ~item.is_dict
    \/ LET path == Get(item, "path", <<>>)
       IN  \E i \in 0..4 : Len(path) > i /\ ~path[i + 1].tem_nome

CategoriaItem(item) ==
    LET path == Get(item, "path", <<>>)
        imagens == Get(item, "images", <<>>)
    IN  ("categoria" :> Nivel(path, 0))
     @@ ("subcategoria" :> Nivel(path, 1))
     @@ ("3_nivel_categoria" :> Nivel(path, 2))
     @@ ("4_nivel_categoria" :> Nivel(path, 3))
     @@ ("5_nivel_categoria" :> Nivel(path, 4))
     @@ ("id_categoria" :> Get(item, "category_id", ""))
     @@ ("imagem_categoria" :> IF imagens # <<>> THEN imagens[1] ELSE "")

\* mutant: the first failing item ends the item loop (break for continue)
RECURSIVE ProcessarItens_Break(_, _, _)
ProcessarItens_Break(itens, i, acc) ==
    IF i > Len(itens) THEN acc
    ELSE IF Levanta(itens[i])
         THEN acc
         ELSE ProcessarItens_Break(itens, i + 1, Append(acc, CategoriaItem(itens[i])))

\* the item loop of one page, lines 140-163
RECURSIVE ProcessarItens(_, _, _)
ProcessarItens(itens, i, acc) ==
    IF i > Len(itens) THEN acc
    ELSE IF Levanta(itens[i])
         THEN ProcessarItens(itens, i + 1, acc)
         ELSE ProcessarItens(itens, i + 1, Append(acc, CategoriaItem(itens[i])))

----------------------------------------------------------------------------
(* Responses of the API *)

Corpo(tem_data, tem_cats, tem_total, total, lista, cats) ==
    [tem_data |-> tem_data, tem_global_cats |-> tem_cats,
     tem_total |-> tem_total, total |-> total,
     lista |-> lista, global_cats |-> cats]

SemCorpo == Corpo(FALSE, FALSE, FALSE, 0, FALSE, <<>>)

Totais == {0, 1, 100, 101, 250, 100 * MaxPaginas}

\* the bodies of a server whose catalogue holds t items
CorposCom(t) ==
    {Corpo(TRUE, TRUE, TRUE, t, TRUE, l) : l \in SeqAte(Itens, MaxItens)}
    \cup {Corpo(TRUE, TRUE, TRUE, t, FALSE, <<>>)}            \* global_cats: null
    \cup {Corpo(TRUE, FALSE, FALSE, 0, FALSE, <<>>)}          \* no "global_cats"
    \cup {SemCorpo}                                           \* no "data"

Resposta(erro, status, valido, corpo) ==
    [erro |-> erro, status_code |-> status, json_valido |-> valido, corpo |-> corpo]

\* requests.get raised
RespostaExcecao == Resposta(TRUE, 0, FALSE, SemCorpo)

RespostasCom(t) ==
    {RespostaExcecao}
    \cup {Resposta(FALSE, 200, FALSE, SemCorpo)}              \* body is not JSON
    \cup {Resposta(FALSE, 200, TRUE, c) : c \in CorposCom(t)}
    \cup {Resposta(FALSE, 500, FALSE, SemCorpo)}
    \cup {Resposta(FALSE, 500, TRUE, Corpo(TRUE, TRUE, TRUE, t, TRUE, <<ItemBom>>))}

\* responses to the first request
PrimeirasRespostas ==
    UNION {RespostasCom(t) : t \in Totais}
    \cup {Resposta(FALSE, 200, TRUE, Corpo(TRUE, TRUE, FALSE, 0, TRUE, <<ItemBom>>))} \* no "total"

\* responses to the request of a later page: the server keeps declaring
\* the total of the first response (the code never reads it again)
RespostasSeguintes(total) == RespostasCom(total)

----------------------------------------------------------------------------
(* Decisions of extrair_categorias_via_api *)

\* mutant: any status from 200 up passes the check
StatusOkPrimeira_Frouxo(status_code) == status_code >= 200

\* line 97
StatusOkPrimeira(status_code) == status_code = 200

\* mutant: any status from 200 up passes the check
StatusOkPagina_Frouxo(status_code) == status_code >= 200

\* line 127
StatusOkPagina(status_code) == status_code = 200

\* lines 104 and 133
EstruturaOk(d) == d.tem_data /\ d.tem_global_cats

\* line 109
TotalItens(d) == IF d.tem_total THEN d.total ELSE 0

\* mutant: floor division, the partial last page is lost
TotalPaginas_Piso(total) == total \div tamanho_pagina

\* line 110
TotalPaginas(total) == (total + tamanho_pagina - 1) \div tamanho_pagina

\* mutant: the handler returns an empty list
RetornoExcecao_Vazio(acumulado) == <<>>

\* line 172
RetornoExcecao(acumulado) == acumulado

\* mutant: and in place of or
SucessoMain_Todos(csv, excel, postgres) == csv /\ excel /\ postgres

\* line 310
SucessoMain(csv, excel, postgres) == csv \/ excel \/ postgres

\* salvar_csv / salvar_excel / salvar_postgres: ok is whether the write
\* itself went through without raising
Salvar(categorias, ok) == IF categorias = <<>> THEN FALSE ELSE ok

----------------------------------------------------------------------------
Init ==
    /\ pc = "inicio"
    /\ cookies = {}
    /\ todas_categorias = <<>>
    /\ data = SemCorpo
    /\ total_itens = 0
    /\ total_paginas = 0
    /\ pagina = 1
    /\ retorno = <<>>
    /\ saida = "nenhuma"
    /\ resultado_main = FALSE
    /\ pedidos = <<>>
    /\ respostas = <<>>
    /\ dormidas = 0
    /\ intervalos = <<>>
    /\ gravacoes = <<>>

\* obter_cookie_sessao, lines 48-66
ObterCookieSessao ==
    /\ pc = "inicio"
    /\ \E r \in {"excecao", "falha", "ok_vazio", "ok"} :
          cookies' = IF r = "ok" THEN {"SPC_F"} ELSE {}
    /\ pc' = "primeira"
    /\ UNCHANGED <<todas_categorias, data, total_itens, total_paginas, pagina,
                   retorno, saida, resultado_main, pedidos, respostas,
                   dormidas, intervalos, gravacoes>>

\* the return of extrair_categorias_via_api
Retornar(valor, linha) ==
    /\ pc' = "retornou"
    /\ retorno' = valor
    /\ saida' = linha

\* lines 84-113
PrimeiraRequisicao ==
    /\ pc = "primeira"
    /\ \E r \in PrimeirasRespostas :
        /\ pedidos' = Append(pedidos, 1)
        /\ respostas' = Append(respostas, r)
        /\ dormidas' = 0
        /\ IF r.erro
           THEN /\ Retornar(RetornoExcecao(todas_categorias), "linha172")
                /\ UNCHANGED <<data, total_itens, total_paginas>>
           ELSE IF ~StatusOkPrimeira(r.status_code)
           THEN /\ Retornar(<<>>, "linha99")
                /\ UNCHANGED <<data, total_itens, total_paginas>>
           ELSE IF ~r.json_valido
           THEN /\ Retornar(RetornoExcecao(todas_categorias), "linha172")
                /\ UNCHANGED <<data, total_itens, total_paginas>>
           ELSE IF ~EstruturaOk(r.corpo)
           THEN /\ Retornar(<<>>, "linha106")
                /\ data' = r.corpo
                /\ UNCHANGED <<total_itens, total_paginas>>
           ELSE /\ data' = r.corpo
                /\ total_itens' = TotalItens(r.corpo)
                /\ total_paginas' = TotalPaginas(TotalItens(r.corpo))
                /\ pc' = "paginas"
                /\ UNCHANGED <<retorno, saida>>
    /\ UNCHANGED <<cookies, todas_categorias, pagina, resultado_main,
                   intervalos, gravacoes>>

\* lines 138-165: items of the page in d, then the sleep
ProcessarPagina(d) ==
    IF ~d.lista
    THEN /\ Retornar(RetornoExcecao(todas_categorias), "linha172")
         /\ UNCHANGED <<todas_categorias, pagina, dormidas>>
    ELSE /\ todas_categorias' = ProcessarItens(d.global_cats, 1, todas_categorias)
         /\ dormidas' = dormidas + 1
         /\ pagina' = pagina + 1
         /\ UNCHANGED <<pc, retorno, saida>>

\* one iteration of the page loop for pagina = 1, lines 116-118, 138-165
IteracaoPrimeiraPagina ==
    /\ pc = "paginas"
    /\ pagina <= total_paginas
    /\ pagina = 1
    /\ ProcessarPagina(data)
    /\ UNCHANGED <<cookies, data, total_itens, total_paginas, resultado_main,
                   pedidos, respostas, intervalos, gravacoes>>

\* one iteration of the page loop for pagina > 1, lines 116-165
IteracaoPagina ==
    /\ pc = "paginas"
    /\ pagina <= total_paginas
    /\ pagina > 1
    /\ \E r \in RespostasSeguintes(total_itens) :
        /\ pedidos' = Append(pedidos, pagina)
        /\ respostas' = Append(respostas, r)
        /\ intervalos' = Append(intervalos, dormidas)
        /\ IF r.erro
           THEN /\ Retornar(RetornoExcecao(todas_categorias), "linha172")
                /\ dormidas' = 0
                /\ UNCHANGED <<todas_categorias, pagina, data>>
           ELSE IF ~StatusOkPagina(r.status_code)
           THEN /\ pagina' = pagina + 1
                /\ dormidas' = 0
                /\ UNCHANGED <<todas_categorias, data, pc, retorno, saida>>
           ELSE IF ~r.json_valido
           THEN /\ Retornar(RetornoExcecao(todas_categorias), "linha172")
                /\ dormidas' = 0
                /\ UNCHANGED <<todas_categorias, pagina, data>>
           ELSE IF ~EstruturaOk(r.corpo)
           THEN /\ data' = r.corpo
                /\ pagina' = pagina + 1
                /\ dormidas' = 0
                /\ UNCHANGED <<todas_categorias, pc, retorno, saida>>
           ELSE /\ data' = r.corpo
                /\ IF ~r.corpo.lista
                   THEN /\ Retornar(RetornoExcecao(todas_categorias), "linha172")
                        /\ dormidas' = 0
                        /\ UNCHANGED <<todas_categorias, pagina>>
                   ELSE /\ todas_categorias' =
                              ProcessarItens(r.corpo.global_cats, 1, todas_categorias)
                        /\ dormidas' = 1
                        /\ pagina' = pagina + 1
                        /\ UNCHANGED <<pc, retorno, saida>>
    /\ UNCHANGED <<cookies, total_itens, total_paginas, resultado_main, gravacoes>>

\* lines 167-168
FimDasPaginas ==
    /\ pc = "paginas"
    /\ pagina > total_paginas
    /\ Retornar(todas_categorias, "linha168")
    /\ UNCHANGED <<cookies, todas_categorias, data, total_itens, total_paginas,
                   pagina, resultado_main, pedidos, respostas, dormidas,
                   intervalos, gravacoes>>

\* main, lines 301-303
MainSemCategorias ==
    /\ pc = "retornou"
    /\ retorno = <<>>
    /\ resultado_main' = FALSE
    /\ pc' = "fim"
    /\ UNCHANGED <<cookies, todas_categorias, data, total_itens, total_paginas,
                   pagina, retorno, saida, pedidos, respostas, dormidas,
                   intervalos, gravacoes>>

Gravacao(sink, categorias, sucesso) ==
    [sink |-> sink, categorias |-> categorias, sucesso |-> sucesso]

\* main, lines 305-315
MainSalvar ==
    /\ pc = "retornou"
    /\ retorno # <<>>
    /\ \E ok_csv \in BOOLEAN, ok_excel \in BOOLEAN, ok_postgres \in BOOLEAN :
        LET sucesso_csv == Salvar(retorno, ok_csv)
            sucesso_excel == Salvar(retorno, ok_excel)
            sucesso_postgres == Salvar(retorno, ok_postgres)
        IN  /\ gravacoes' = <<Gravacao("csv", retorno, sucesso_csv),
                              Gravacao("excel", retorno, sucesso_excel),
                              Gravacao("postgres", retorno, sucesso_postgres)>>
            /\ resultado_main' =
                  SucessoMain(sucesso_csv, sucesso_excel, sucesso_postgres)
    /\ pc' = "fim"
    /\ UNCHANGED <<cookies, todas_categorias, data, total_itens, total_paginas,
                   pagina, retorno, saida, pedidos, respostas, dormidas,
                   intervalos>>

Next ==
    \/ ObterCookieSessao
    \/ PrimeiraRequisicao
    \/ IteracaoPrimeiraPagina
    \/ IteracaoPagina
    \/ FimDasPaginas
    \/ MainSemCategorias
    \/ MainSalvar

Spec == Init /\ [][Next]_vars

----------------------------------------------------------------------------
(* The item loop on larger inputs: the run starts after a first response   *)
(* that declared two pages, with page 1 drawn from lists of up to MaxLista *)
(* small items and from single items with every path of up to MaxNiveis    *)
(* nodes.                                                                  *)

EntradasItens ==
    SeqAte(Itens, MaxLista) \cup {<<x>> : x \in Universo}

InitItens ==
    \E l \in EntradasItens :
        LET r == Resposta(FALSE, 200, TRUE, Corpo(TRUE, TRUE, TRUE, 101, TRUE, l))
        IN  /\ pc = "paginas"
            /\ cookies = {}
            /\ todas_categorias = <<>>
            /\ data = r.corpo
            /\ total_itens = TotalItens(r.corpo)
            /\ total_paginas = TotalPaginas(TotalItens(r.corpo))
            /\ pagina = 1
            /\ retorno = <<>>
            /\ saida = "nenhuma"
            /\ resultado_main = FALSE
            /\ pedidos = <<1>>
            /\ respostas = <<r>>
            /\ dormidas = 0
            /\ intervalos = <<>>
            /\ gravacoes = <<>>

NextItens ==
    \/ IteracaoPrimeiraPagina
    \/ IteracaoPagina
    \/ FimDasPaginas

SpecItens == InitItens /\ [][NextItens]_vars

----------------------------------------------------------------------------
(* Vocabulary of the properties *)

Max(a, b) == IF a >= b THEN a ELSE b

\* the least n with n * tamanho_pagina >= t
Teto(t) ==
    CHOOSE n \in 0..(t + 1) : n * tamanho_pagina >= t /\ (n - 1) * tamanho_pagina < t

Ascendente(n) == [i \in 1..n |-> i]

Terminou == pc \in {"retornou", "fim"}

\* a response that carries a page: status 200, JSON, data.global_cats a list
PaginaBoa(r) ==
    /\ ~r.erro /\ r.status_code = 200 /\ r.json_valido
    /\ r.corpo.tem_data /\ r.corpo.tem_global_cats /\ r.corpo.lista

\* a 200 response whose body is not JSON or lacks data / data.global_cats
Malformada(r) ==
    /\ ~r.erro /\ r.status_code = 200
    /\ ~r.json_valido \/ ~r.corpo.tem_data \/ ~r.corpo.tem_global_cats

\* an item whose flattening fails: not an object, or one of its first five
\* path nodes has no name
ItemFalha(x) ==
    \/ ~x.is_dict
    \/ "path" \in x.chaves /\ \E i \in 1..Len(x.path) : i <= 5 /\ ~x.path[i].tem_nome

\* the records of the items of a list that flatten, in list order
SemFalhas(itens) ==
    LET bons == SelectSeq(itens, LAMBDA x : ~ItemFalha(x))
    IN  [k \in 1..Len(bons) |-> CategoriaItem(bons[k])]

\* the records of the pages in 1..total_paginas that were requested and
\* carried a page, in request order
RECURSIVE RegistrosAte(_)
RegistrosAte(n) ==
    IF n = 0 THEN <<>>
    ELSE RegistrosAte(n - 1) \o
         (IF pedidos[n] <= total_paginas /\ PaginaBoa(respostas[n])
          THEN SemFalhas(respostas[n].corpo.global_cats)
          ELSE <<>>)

Esperado == RegistrosAte(Len(respostas))

----------------------------------------------------------------------------
(* C1 *)

PrimeiraBoa == Len(respostas) >= 1 /\ PaginaBoa(respostas[1])

\* C1, as stated: after a successful, well-formed first response declaring
\* total_itens, total_paginas = ceil(total_itens / 100) and the run issues
\* exactly the requests for pages 1..total_paginas, ascending, each once.
C1_Original ==
    (pc = "fim" /\ PrimeiraBoa /\ respostas[1].corpo.tem_total) =>
        /\ total_paginas = Teto(total_itens)
        /\ pedidos = Ascendente(total_paginas)

\* C1, amended: total_paginas = ceil(total_itens / 100); the requests are
\* for pages 1, 2, ..., n, ascending and each once, with n at most
\* max(1, total_paginas), and n = max(1, total_paginas) when the run ends
\* at the normal return (no exception reached the top-level handler).
C1_Requests ==
    (Terminou /\ PrimeiraBoa) =>
        /\ total_paginas = Teto(total_itens)
        /\ pedidos = Ascendente(Len(pedidos))
        /\ Len(pedidos) <= Max(1, total_paginas)
        /\ saida = "linha168" => Len(pedidos) = Max(1, total_paginas)

C1_Witness ==
    /\ pc = "fim" /\ PrimeiraBoa /\ saida = "linha168"
    /\ total_itens = 250 /\ total_paginas = 3 /\ pedidos = <<1, 2, 3>>

----------------------------------------------------------------------------
(* C2 *)

\* C2: when the first request returns 200 and every 200 response carries a
\* well-formed page, the returned sequence is the concatenation, in page
\* order and then list order, of the flattened items of the requested
\* pages of 1..total_paginas that returned 200; a non-200 later page loses
\* only its own items and the pages after it are still requested.
C2_Concatenation ==
    (/\ pc = "fim"
     /\ ~respostas[1].erro /\ respostas[1].status_code = 200
     /\ \A i \in 1..Len(respostas) :
            (~respostas[i].erro /\ respostas[i].status_code = 200)
                => PaginaBoa(respostas[i]))
    => /\ retorno = Esperado
       /\ (\A i \in 1..Len(respostas) : ~respostas[i].erro)
             => pedidos = Ascendente(Max(1, total_paginas))

C2_Witness ==
    /\ pc = "fim" /\ total_paginas = 3 /\ Len(respostas) = 3
    /\ PaginaBoa(respostas[1]) /\ respostas[1].corpo.global_cats = <<ItemBom>>
    /\ respostas[2].status_code = 500
    /\ PaginaBoa(respostas[3]) /\ respostas[3].corpo.global_cats = <<ItemSemId>>
    /\ retorno = <<CategoriaItem(ItemBom), CategoriaItem(ItemSemId)>>

----------------------------------------------------------------------------
(* C3 *)

\* C3, as stated: a malformed 200 response on any page, the first included,
\* loses only that page: the run is not aborted, every other page is
\* requested and the items of every other successful page are returned.
C3_MalformedSkipsOnlyPage ==
    (/\ pc = "fim"
     /\ \A i \in 1..Len(respostas) :
            PaginaBoa(respostas[i]) \/ Malformada(respostas[i])
     /\ \E i \in 1..Len(respostas) : Malformada(respostas[i]))
    => /\ saida = "linha168"
       /\ pedidos = Ascendente(Len(pedidos))
       /\ PaginaBoa(respostas[1]) => Len(pedidos) = Max(1, total_paginas)
       /\ retorno = Esperado

----------------------------------------------------------------------------
(* C4 *)

\* C4: when the first request returns a non-200 status the extraction
\* returns an empty sequence and issues no further request, whatever the
\* cookies.
C4_FirstStatusAborts ==
    (/\ Len(respostas) >= 1
     /\ ~respostas[1].erro /\ respostas[1].status_code # 200)
    => /\ pedidos = <<1>>
       /\ Terminou
       /\ retorno = <<>>
       /\ saida = "linha99"
       /\ todas_categorias = <<>>

C4_Witness ==
    /\ pc = "fim" /\ cookies = {}
    /\ respostas[1].status_code = 500 /\ respostas[1].json_valido
    /\ pedidos = <<1>> /\ retorno = <<>> /\ ~resultado_main

----------------------------------------------------------------------------
(* C5, under SpecItens *)

\* the state after the iteration of page 1 of a one-item page
DepoisDeUmItem ==
    pc = "paginas" /\ pagina = 2 /\ Len(respostas[1].corpo.global_cats) = 1

CaminhoDe(x) == IF "path" \in x.chaves THEN x.path ELSE <<>>

\* C5: for an item whose path has d <= 5 named nodes, the five level
\* fields of its record are the names of nodes 0..d-1 in order, then "".
C5_Levels ==
    DepoisDeUmItem =>
        LET x == respostas[1].corpo.global_cats[1]
            path == CaminhoDe(x)
            d == Len(path)
        IN  (x.is_dict /\ d <= 5 /\ \A i \in 1..d : path[i].tem_nome)
            => /\ Len(todas_categorias) = 1
               /\ \A i \in 0..4 :
                     todas_categorias[1][Colunas[i + 1]] =
                         IF i < d THEN path[i + 1].category_name ELSE ""

C5_Witness ==
    /\ DepoisDeUmItem
    /\ CaminhoDe(respostas[1].corpo.global_cats[1]) = <<No("a"), No("b"), No("a")>>
    /\ Len(todas_categorias) = 1
    /\ todas_categorias[1]["subcategoria"] = "b"
    /\ todas_categorias[1]["3_nivel_categoria"] = "a"
    /\ todas_categorias[1]["4_nivel_categoria"] = ""

----------------------------------------------------------------------------
(* C6 *)

\* C6: main returns True exactly when the extraction returned at least one
\* record and at least one sink reported success; with a non-empty
\* extraction the three sinks are each called with the full sequence,
\* whatever the others returned.
C6_MainResult ==
    pc = "fim" =>
        /\ resultado_main =
              (retorno # <<>> /\ \E k \in 1..Len(gravacoes) : gravacoes[k].sucesso)
        /\ retorno # <<>> =>
              /\ Len(gravacoes) = 3
              /\ <<gravacoes[1].sink, gravacoes[2].sink, gravacoes[3].sink>>
                    = <<"csv", "excel", "postgres">>
              /\ \A k \in 1..3 : gravacoes[k].categorias = retorno
        /\ retorno = <<>> => gravacoes = <<>>

C6_Witness ==
    /\ pc = "fim" /\ resultado_main /\ Len(gravacoes) = 3
    /\ ~gravacoes[1].sucesso /\ ~gravacoes[2].sucesso /\ gravacoes[3].sucesso

----------------------------------------------------------------------------
(* C7, under SpecItens *)

DepoisDaPagina1 == pc = "paginas" /\ pagina = 2

TemId(x) == "category_id" \in x.chaves

\* C7, as stated: an item without category_id is skipped, no record of it
\* is appended.
C7_Original ==
    DepoisDaPagina1 =>
        todas_categorias =
            SemFalhas(SelectSeq(respostas[1].corpo.global_cats, TemId))

\* C7, amended: a missing category_id is no failure; the item is flattened
\* with id_categoria = "" and appended.  The items that are skipped are
\* those that are no object or have a nameless node among their first
\* five path nodes, and the loop goes on with the next item.
C7_MissingIdKept ==
    DepoisDaPagina1 =>
        LET bons == SelectSeq(respostas[1].corpo.global_cats,
                              LAMBDA x : ~ItemFalha(x))
        IN  /\ Len(todas_categorias) = Len(bons)
            /\ \A k \in 1..Len(bons) :
                  todas_categorias[k]["id_categoria"] =
                      IF TemId(bons[k]) THEN bons[k].category_id ELSE ""

C7_Witness ==
    /\ DepoisDaPagina1
    /\ respostas[1].corpo.global_cats = <<ItemSemId, ItemRuim, ItemBom>>
    /\ Len(todas_categorias) = 2
    /\ todas_categorias[1]["id_categoria"] = ""
    /\ todas_categorias[1]["categoria"] = "c"
    /\ todas_categorias[2]["id_categoria"] = "id1"

----------------------------------------------------------------------------
(* C8, under SpecItens *)

\* the response carrying the page the current iteration works on
PaginaDaIteracao == IF pagina = 1 THEN respostas[1] ELSE respostas'[Len(respostas')]

\* C8: an iteration over a page whose global_cats is a list appends the
\* records of all its items but the failing ones, in list order, after the
\* records already accumulated, and the page loop goes on.
C8_ItemFailureSkipsOnlyItem ==
    [][(pc = "paginas" /\ pagina <= total_paginas /\ PaginaBoa(PaginaDaIteracao))
        => /\ todas_categorias' =
                 todas_categorias \o SemFalhas(PaginaDaIteracao.corpo.global_cats)
           /\ pc' = "paginas"
           /\ pagina' = pagina + 1]_vars

C8_Witness ==
    /\ pc = "retornou" /\ saida = "linha168"
    /\ respostas[1].corpo.global_cats = <<ItemBom, ItemRuim, ItemSemId>>
    /\ PaginaBoa(respostas[2]) /\ respostas[2].corpo.global_cats = <<ItemBom>>
    /\ retorno = <<CategoriaItem(ItemBom), CategoriaItem(ItemSemId),
                   CategoriaItem(ItemBom)>>

----------------------------------------------------------------------------
(* C9 *)

\* C9, as stated: between every two successive requests the 500 ms sleep
\* runs exactly once, whatever the outcome of the earlier request.
C9_OneDelayBetweenRequests ==
    \A i \in 1..Len(intervalos) : intervalos[i] = 1

----------------------------------------------------------------------------
(* C10 *)

\* a response that raises into the top-level handler
Levantou(r) ==
    \/ r.erro
    \/ ~r.erro /\ r.status_code = 200 /\ ~r.json_valido
    \/ ~r.erro /\ r.status_code = 200 /\ r.json_valido
       /\ r.corpo.tem_data /\ r.corpo.tem_global_cats /\ ~r.corpo.lista

\* C10: when an exception reaches the top-level handler, the request that
\* raised is the last one, the value returned is exactly what the pages
\* before it had accumulated, and main hands that sequence to the three
\* sinks when it is not empty.
C10_PartialResult ==
    (Terminou /\ saida = "linha172") =>
        /\ Levantou(respostas[Len(respostas)])
        /\ \A i \in 1..(Len(respostas) - 1) : ~Levantou(respostas[i])
        /\ retorno = Esperado
        /\ retorno = todas_categorias
        /\ (pc = "fim" /\ retorno # <<>>) =>
              /\ Len(gravacoes) = 3
              /\ \A k \in 1..3 : gravacoes[k].categorias = retorno
        /\ (pc = "fim" /\ retorno = <<>>) => ~resultado_main

C10_Witness ==
    /\ pc = "fim" /\ saida = "linha172"
    /\ total_paginas = 3 /\ pedidos = <<1, 2>>
    /\ Malformada(respostas[2])
    /\ retorno = <<CategoriaItem(ItemBom)>>
    /\ resultado_main

====
